---- MODULE Spec2Model ----
(***************************************************************************)
(* A model of src/lib/toggl/ApiManager.ts: the Toggl API wrapper           *)
(* (TogglAPI) and the service that polls the running timer and publishes   *)
(* it to the stores (TogglService).                                        *)
(*                                                                         *)
(*   Spec          the service: setToken, the poll interval, the passes of *)
(*                 updateCurrentTimer, startTimer, stopTimer, the preload  *)
(*   SpecClassify  one pass of updateCurrentTimer over every pair of a     *)
(*                 held entry and a fetched response                       *)
(*   SpecReport    getDetailedReport over every bounded list of records    *)
(***************************************************************************)
EXTENDS Integers, Sequences, FiniteSets, TLC

(***************************************************************************)
(* Bounds of the model.                                                    *)
(***************************************************************************)
\* longest tag list of a time entry
MaxTags == 2
\* longest list of records the paginated report fetch returns
MaxRecords == 5
\* most remote calls in flight at a time (the probe of setToken apart)
MaxInFlight == 3
\* most passes of updateCurrentTimer awaiting getCurrentTimer at a time
MaxPasses == 2
\* most report queries (getSummary, getDetailedReport) made in a run
MaxSubmitted == 4

(***************************************************************************)
(* Values.  null and undefined are one value here wherever the code tests  *)
(* them with the loose == / != only.                                       *)
(***************************************************************************)
Null == [null |-> TRUE]
Undefined == "undefined"

\* An optional field holding a list: <<>> is absent, <<l>> is the list l.
Absent == <<>>
Some(l) == <<l>>

Ids == {"e1", "e2"}
Descriptions == {"a", "b"}
Pids == {Undefined, "p10"}
Starts == {"t1", "t2"}
TagNames == {"x", "y"}
\* wid is a number in the response; settings.workspace.id is a string.
Wids == {1, 2}
WorkspaceIds == {"1", "2"}

TagLists == UNION {[1..n -> TagNames] : n \in 0..MaxTags}
TagFields == {Absent} \cup {Some(l) : l \in TagLists}

\* The responses of timeEntries.current(): a running entry, or null.
Entries ==
    [id : Ids, description : Descriptions, pid : Pids, start : Starts,
     tags : TagFields, wid : Wids]
Responses == Entries \cup {Null}

(***************************************************************************)
(* TogglService: the pure parts of a pass of updateCurrentTimer.           *)
(***************************************************************************)
\* The number a workspace id string converts to in `curr.wid != this.workspaceId`
\* (a number compared loosely with a string compares as numbers).
ToNumber(s) == CASE s = "1" -> 1 [] s = "2" -> 2

\* tags || []
OrEmpty(tags) == IF tags = Absent THEN <<>> ELSE tags[1]

\* Array.prototype.indexOf: the 0-based index of the first occurrence, or -1.
indexOf(list, tag) ==
    IF \E i \in 1..Len(list) : list[i] = tag
    THEN (CHOOSE i \in 1..Len(list) :
             list[i] = tag /\ \A j \in 1..(i - 1) : list[j] # tag) - 1
    ELSE -1

isTagsChanged_lengthOnly(old_tags, new_tags) ==
    Len(OrEmpty(old_tags)) # Len(OrEmpty(new_tags))

isTagsChanged(old_tags, new_tags) ==
    LET o == OrEmpty(old_tags)
        n == OrEmpty(new_tags)
    IN  IF Len(o) # Len(n)
        THEN TRUE
        ELSE \E i \in 1..Len(o) : indexOf(n, o[i]) < 0

dropForeignWorkspace_none(curr, wsId) == curr

dropForeignWorkspace_anyProject(curr, wsId) ==
    IF curr # Null /\ curr.wid # ToNumber(wsId) THEN Null ELSE curr

\* "Drop timers from different workspaces"
dropForeignWorkspace(curr, wsId) ==
    IF curr # Null /\ curr.wid # ToNumber(wsId) /\ curr.pid # Undefined
    THEN Null
    ELSE curr

reconcile_sameIdOnly(prev, curr) ==
    IF curr # Null
    THEN IF prev = Null
         THEN [changed |-> TRUE, case |-> "Case 1"]
         ELSE IF prev.description # curr.description
                 \/ prev.pid # curr.pid
                 \/ prev.start # curr.start
                 \/ isTagsChanged(prev.tags, curr.tags)
              THEN [changed |-> TRUE, case |-> "Case 3"]
              ELSE [changed |-> FALSE, case |-> "none"]
    ELSE IF prev # Null
         THEN [changed |-> TRUE, case |-> "Case 4"]
         ELSE [changed |-> FALSE, case |-> "none"]

reconcile_noStart(prev, curr) ==
    IF curr # Null
    THEN IF prev = Null
         THEN [changed |-> TRUE, case |-> "Case 1"]
         ELSE IF prev.id # curr.id
              THEN [changed |-> TRUE, case |-> "Case 2"]
              ELSE IF prev.description # curr.description
                      \/ prev.pid # curr.pid
                      \/ isTagsChanged(prev.tags, curr.tags)
                   THEN [changed |-> TRUE, case |-> "Case 3"]
                   ELSE [changed |-> FALSE, case |-> "none"]
    ELSE IF prev # Null
         THEN [changed |-> TRUE, case |-> "Case 4"]
         ELSE [changed |-> FALSE, case |-> "none"]

\* The four cases of updateCurrentTimer: `changed`, and the case its
\* console.debug line names ("none" when no line is logged).
reconcile(prev, curr) ==
    IF curr # Null
    THEN IF prev = Null
         THEN [changed |-> TRUE, case |-> "Case 1"]
         ELSE IF prev.id # curr.id
              THEN [changed |-> TRUE, case |-> "Case 2"]
              ELSE IF prev.description # curr.description
                      \/ prev.pid # curr.pid
                      \/ prev.start # curr.start
                      \/ isTagsChanged(prev.tags, curr.tags)
                   THEN [changed |-> TRUE, case |-> "Case 3"]
                   ELSE [changed |-> FALSE, case |-> "none"]
    ELSE IF prev # Null
         THEN [changed |-> TRUE, case |-> "Case 4"]
         ELSE [changed |-> FALSE, case |-> "none"]

\* The cached projects are modelled by their ids; a project's name and
\* colour are functions of its id.
ProjectIds == {"p10"}
ProjectName(pid) == <<"name of", pid>>
ProjectColor(pid) == <<"color of", pid>>

\* duration and end are copied through and are left out of the entries here.
responseToTimeEntry(response, cachedProjects) ==
    LET found == response.pid \in cachedProjects
    IN  [description |-> response.description,
         pid |-> response.pid,
         id |-> response.id,
         start |-> response.start,
         project |-> IF response.pid # Undefined
                     THEN IF found THEN ProjectName(response.pid)
                                   ELSE <<"(Unknown)">>
                     ELSE <<"(No project)">>,
         project_hex_color |-> IF found THEN ProjectColor(response.pid)
                                        ELSE <<"var(--text-muted)">>,
         tags |-> response.tags]

\* The text updateStatusBarText sets, without the elapsed minutes (they
\* depend on the clock) and without the truncation to charLimitStatusBar.
timerText(entry) ==
    IF entry = Null
    THEN <<"Timer: ", "-">>
    ELSE <<"Timer: ",
           IF entry.description = Undefined THEN "No description"
                                            ELSE entry.description>>

(***************************************************************************)
(* TogglAPI.getDetailedReport: the assembly of the report.                 *)
(***************************************************************************)
ReportIds == {1, 2, 3, 4}
Durs == {10, 20}
Detailed == [id : ReportIds, dur : Durs]
RawLists == UNION {[1..n -> Detailed] : n \in 0..MaxRecords}

\* data.reduce((acc, curr) => acc + curr.dur, 0)
RECURSIVE sumDur(_)
sumDur(data) ==
    IF data = <<>> THEN 0 ELSE data[1].dur + sumDur(Tail(data))

findIndex_last(self, id) ==
    (CHOOSE i \in 1..Len(self) :
        self[i].id = id /\ \A j \in (i + 1)..Len(self) : self[j].id # id) - 1

\* self.findIndex((el2) => el2.id === id), 0-based; id occurs in self.
findIndex(self, id) ==
    (CHOOSE i \in 1..Len(self) :
        self[i].id = id /\ \A j \in 1..(i - 1) : self[j].id # id) - 1

\* data.filter((el, index, self) => index === self.findIndex(...)), from
\* the 0-based index on.
RECURSIVE dedupFrom(_, _)
dedupFrom(self, index) ==
    IF index >= Len(self)
    THEN <<>>
    ELSE (IF index = findIndex(self, self[index + 1].id)
          THEN <<self[index + 1]>>
          ELSE <<>>) \o dedupFrom(self, index + 1)

\* completeReport as getDetailedReport returns it for the fetched list raw.
assemble(raw) ==
    [total_count |-> Len(raw),
     total_grand |-> sumDur(raw),
     data |-> dedupFrom(raw, 0)]

EmptyReport == [total_count |-> 0, total_grand |-> 0, data |-> <<>>]

(***************************************************************************)
(* The state.                                                              *)
(***************************************************************************)
VARIABLES
    workspaceId,            \* settings.workspace.id
    _ApiAvailable,          \* TogglService._ApiAvailable
    apiStatusStore,         \* the store apiStatusStore
    statusText,             \* the text of the status bar item
    _currentTimerInterval,  \* the handle setInterval returned last
    intervals,              \* the handles of the intervals the window runs
    _currentTimeEntry,      \* the held entry: the response of the last pass
    currentTimer,           \* the store currentTimer
    _projects,              \* the cached projects
    dailySummary,           \* the store dailySummary
    passes,                 \* the passes of updateCurrentTimer awaiting
                            \* getCurrentTimer, in the order they started
    probe,                  \* TogglAPI.setToken of the latest api manager
    pending,                \* the other remote calls in flight, by kind
    lastOp,                 \* the operation of the service the last step
                            \* called, or "none" when it only settled a call
    lastNotice,             \* the Notice the last step showed, or "none"
    lastPass,               \* the pass the last step ran to its end, or NoPass
    rawData,                \* what reports.detailsAll resolves with
    report,                 \* what getDetailedReport returned
    queueWaiting,           \* ApiQueue: the operations waiting, oldest first
    queueBusy,              \* ApiQueue: whether an operation of it runs
    reportFetches,          \* the report queries whose remote call is in flight
    queueStarted,           \* the numbers of the queries begun, in that order
    queueSettled,           \* the queries settled and how, in that order
    now,                    \* the clock: new Date().getTime(), split in
                            \* whole seconds and the milliseconds beyond
    timeEntry,              \* the entry getTimerDuration is called with
    timerDuration,          \* what getTimerDuration returned
    trackOvertaking         \* whether the passes in flight record that a
                            \* pass started after them has run to its end

vars ==
    <<workspaceId, _ApiAvailable, apiStatusStore, statusText,
      _currentTimerInterval, intervals, _currentTimeEntry, currentTimer,
      _projects, dailySummary, passes, probe, pending, lastOp, lastNotice,
      lastPass, rawData, report, queueWaiting, queueBusy, reportFetches,
      queueStarted, queueSettled, now, timeEntry, timerDuration,
      trackOvertaking>>

serviceVars ==
    <<workspaceId, _ApiAvailable, apiStatusStore, statusText,
      _currentTimerInterval, intervals, _currentTimeEntry, currentTimer,
      _projects, dailySummary, passes, probe, pending, lastOp, lastNotice,
      lastPass>>

reportVars == <<rawData, report>>

queueVars ==
    <<queueWaiting, queueBusy, reportFetches, queueStarted, queueSettled>>

durationVars == <<now, timeEntry, timerDuration>>

historyVars == <<trackOvertaking>>

\* `_currentTimerInterval: number = null`; clearInterval(null) clears nothing.
NoHandle == 0
NoPass == [none |-> TRUE]
NoReport == [none |-> TRUE]
NullToken == "<null>"
Tokens == {NullToken, "", "token"}

\* The names lastOp gives the calls of setToken.
OpSetToken(token) ==
    CASE token = NullToken -> "setToken(null)"
      [] token = "" -> "setToken('')"
      [] OTHER -> "setToken('token')"

Kinds == {"summary", "projects", "recent", "start", "stop"}
NoCalls == [kind \in Kinds |-> 0]

\* The remote calls in flight.
InFlight ==
    Len(passes) + pending["summary"] + pending["projects"]
    + pending["recent"] + pending["start"] + pending["stop"]

\* The service as its constructor leaves it.
Constructed ==
    /\ _ApiAvailable = "UNTESTED"
    /\ apiStatusStore = "UNTESTED"
    /\ statusText = <<"Connecting to Toggl...">>
    /\ _currentTimerInterval = NoHandle
    /\ intervals = {}
    /\ _currentTimeEntry = Null
    /\ currentTimer = Null
    /\ _projects = {}
    /\ dailySummary = Null
    /\ passes = <<>>
    /\ probe = "none"
    /\ pending = NoCalls
    /\ lastOp = "none"
    /\ lastNotice = "none"
    /\ lastPass = NoPass

NoReportCall ==
    /\ rawData = <<>>
    /\ report = NoReport

\* `private _queue = new ApiQueue()`: nothing waits, nothing runs.
QueueIdle ==
    /\ queueWaiting = <<>>
    /\ queueBusy = FALSE
    /\ reportFetches = {}
    /\ queueStarted = <<>>
    /\ queueSettled = <<>>

NoDuration == [none |-> TRUE]
NoDurationCall ==
    /\ now = [sec |-> 0, ms |-> 0]
    /\ timeEntry = Null
    /\ timerDuration = NoDuration

\* Overtaking is recorded in SpecRace only.
Untracked == trackOvertaking = FALSE

(***************************************************************************)
(* TogglService: the operations.                                           *)
(***************************************************************************)
isApiAvailable_untestedToo(status) == status \in {"AVAILABLE", "UNTESTED"}

isApiAvailable(status) == status = "AVAILABLE"

\* The Notice noticeAPINotAvailable shows for a status, or "none".
noticeAPINotAvailable(status) ==
    CASE status = "NO_TOKEN" -> "No Toggl Track API token is set."
      [] status = "UNREACHABLE" -> "The Toggl Track API is unreachable."
      [] OTHER -> "none"

clearInterval_forgotten(handles, handle) == handles

\* window.clearInterval(handle)
clearInterval(handles, handle) == handles \ {handle}

\* window.setInterval: a handle no running interval has.  Handles are only
\* ever compared with each other, so the least free one stands for any (the
\* handle held is overwritten by the new one in the same step).
setInterval(handles) ==
    CHOOSE h \in 1..(Cardinality(handles) + 1) :
        /\ h \notin handles
        /\ \A k \in 1..(h - 1) : k \in handles

\* updateCurrentTimer up to its await: the passes in flight after a call
\* made with this status and this held entry.  `overtaken` records whether
\* a pass that started later has run to its end since (where that is
\* tracked).
beginPass(status, held, inFlight) ==
    IF ~isApiAvailable(status)
    THEN inFlight
    ELSE Append(inFlight, [prev |-> held, overtaken |-> FALSE])

\* Whether the try block of TogglService.setToken throws: the calls in it are
\* async functions and timers, so a failure is a rejected promise that the
\* block does not await, never an exception.
tryBlockThrows == FALSE

setToken(token) ==
    /\ IF token # NullToken /\ token # ""
       THEN IF ~tryBlockThrows
            THEN /\ InFlight + 3 <= MaxInFlight
                 /\ Len(passes) < MaxPasses
                 \* this._apiManager.setToken(token), not awaited
                 /\ probe' = "pending"
                 /\ _ApiAvailable' = "AVAILABLE"
                 \* startTimerInterval
                 /\ passes' = beginPass("AVAILABLE", _currentTimeEntry, passes)
                 /\ LET cleared == clearInterval(intervals, _currentTimerInterval)
                        h == setInterval(cleared)
                    IN  /\ _currentTimerInterval' = h
                        /\ intervals' = cleared \cup {h}
                 \* _preloadWorkspaceData (getTags only fills _tags, which
                 \* nothing modelled here reads)
                 /\ pending' = [pending EXCEPT !["projects"] = @ + 1,
                                               !["summary"] = @ + 1]
                 /\ lastNotice' = "none"
                 /\ UNCHANGED statusText
            ELSE /\ probe' = "pending"
                 /\ statusText' = <<"Cannot connect to Toggl API">>
                 /\ _ApiAvailable' = "UNREACHABLE"
                 /\ lastNotice' = noticeAPINotAvailable("UNREACHABLE")
                 /\ intervals' = clearInterval(intervals, _currentTimerInterval)
                 /\ UNCHANGED <<_currentTimerInterval, passes, pending>>
       ELSE /\ statusText' = <<"Open settings to add a Toggl API token.">>
            /\ _ApiAvailable' = "NO_TOKEN"
            /\ lastNotice' = noticeAPINotAvailable("NO_TOKEN")
            /\ intervals' = clearInterval(intervals, _currentTimerInterval)
            /\ UNCHANGED <<_currentTimerInterval, passes, pending, probe>>
    /\ apiStatusStore' = _ApiAvailable'
    /\ lastPass' = NoPass
    /\ UNCHANGED <<workspaceId, _currentTimeEntry, currentTimer, _projects,
                   dailySummary>>
    /\ lastOp' = OpSetToken(token)
    /\ UNCHANGED <<reportVars, queueVars, durationVars, historyVars>>

SetToken == \E token \in Tokens : setToken(token)

\* TogglAPI.setToken settles: testConnection resolved, or it failed and the
\* promise rejects with 'Cannot connect to Toggl API.'.  TogglService.setToken
\* dropped the promise, so nothing else changes.
ProbeSettles ==
    /\ probe = "pending"
    /\ probe' \in {"connected", "rejected"}
    /\ lastNotice' = "none"
    /\ lastPass' = NoPass
    /\ UNCHANGED <<workspaceId, _ApiAvailable, apiStatusStore, statusText,
                   _currentTimerInterval, intervals, _currentTimeEntry,
                   currentTimer, _projects, dailySummary, passes, pending>>
    /\ lastOp' = "none"
    /\ UNCHANGED <<reportVars, queueVars, durationVars, historyVars>>

\* An interval of the window fires its callback: updateCurrentTimer().
Tick ==
    /\ intervals # {}
    /\ isApiAvailable(_ApiAvailable) =>
          InFlight + 1 <= MaxInFlight /\ Len(passes) < MaxPasses
    /\ passes' = beginPass(_ApiAvailable, _currentTimeEntry, passes)
    /\ lastNotice' = "none"
    /\ lastPass' = NoPass
    /\ UNCHANGED <<workspaceId, _ApiAvailable, apiStatusStore, statusText,
                   _currentTimerInterval, intervals, _currentTimeEntry,
                   currentTimer, _projects, dailySummary, probe, pending>>
    /\ lastOp' = "updateCurrentTimer"
    /\ UNCHANGED <<reportVars, queueVars, durationVars, historyVars>>

RemoveAt(seq, i) == SubSeq(seq, 1, i - 1) \o SubSeq(seq, i + 1, Len(seq))

passResolves_alwaysPublishes(i, r) ==
    LET prev == passes[i].prev
        curr == dropForeignWorkspace(r, workspaceId)
        rc == reconcile(prev, curr)
    IN  /\ passes' =
              RemoveAt([k \in 1..Len(passes) |->
                           IF trackOvertaking /\ k < i
                           THEN [passes[k] EXCEPT !.overtaken = TRUE]
                           ELSE passes[k]], i)
        /\ currentTimer' =
              IF curr # Null THEN responseToTimeEntry(curr, _projects)
                             ELSE Null
        /\ pending' = [pending EXCEPT !["summary"] = @ + 1]
        /\ _currentTimeEntry' = curr
        /\ statusText' = timerText(curr)
        /\ lastPass' = [prev |-> prev, fetched |-> r, curr |-> curr,
                        changed |-> rc.changed, case |-> rc.case,
                        overtaken |-> passes[i].overtaken]
        /\ lastNotice' = "none"
        /\ UNCHANGED <<workspaceId, _ApiAvailable, apiStatusStore,
                       _currentTimerInterval, intervals, _projects,
                       dailySummary, probe>>
        /\ lastOp' = "none"
        /\ UNCHANGED <<reportVars, queueVars, durationVars, historyVars>>

\* getCurrentTimer of pass i resolves with response r: updateCurrentTimer
\* from its await to its end.
passResolves(i, r) ==
    LET prev == passes[i].prev
        curr == dropForeignWorkspace(r, workspaceId)
        rc == reconcile(prev, curr)
    IN  /\ passes' =
              RemoveAt([k \in 1..Len(passes) |->
                           IF trackOvertaking /\ k < i
                           THEN [passes[k] EXCEPT !.overtaken = TRUE]
                           ELSE passes[k]], i)
        /\ currentTimer' =
              IF rc.changed
              THEN IF curr # Null THEN responseToTimeEntry(curr, _projects)
                                  ELSE Null
              ELSE currentTimer
        \* "fetch updated daily summary report"
        /\ pending' = IF rc.changed
                      THEN [pending EXCEPT !["summary"] = @ + 1]
                      ELSE pending
        /\ _currentTimeEntry' = curr
        /\ statusText' = timerText(curr)
        /\ lastPass' = [prev |-> prev, fetched |-> r, curr |-> curr,
                        changed |-> rc.changed, case |-> rc.case,
                        overtaken |-> passes[i].overtaken]
        /\ lastNotice' = "none"
        /\ UNCHANGED <<workspaceId, _ApiAvailable, apiStatusStore,
                       _currentTimerInterval, intervals, _projects,
                       dailySummary, probe>>
        /\ lastOp' = "none"
        /\ UNCHANGED <<reportVars, queueVars, durationVars, historyVars>>

PassResolves(responses) ==
    \E i \in 1..Len(passes) : \E r \in responses : passResolves(i, r)

PassFails_stopsPolling ==
    \E i \in 1..Len(passes) :
        /\ passes' = RemoveAt(passes, i)
        /\ intervals' = clearInterval(intervals, _currentTimerInterval)
        /\ lastNotice' = "none"
        /\ lastPass' = NoPass
        /\ UNCHANGED <<workspaceId, _ApiAvailable, apiStatusStore, statusText,
                       _currentTimerInterval, _currentTimeEntry,
                       currentTimer, _projects, dailySummary, probe, pending>>
        /\ lastOp' = "none"
        /\ UNCHANGED <<reportVars, queueVars, durationVars, historyVars>>

\* getCurrentTimer of pass i rejects: the pass logs the error and returns.
PassFails ==
    \E i \in 1..Len(passes) :
        /\ passes' = RemoveAt(passes, i)
        /\ lastNotice' = "none"
        /\ lastPass' = NoPass
        /\ UNCHANGED <<workspaceId, _ApiAvailable, apiStatusStore, statusText,
                       _currentTimerInterval, intervals, _currentTimeEntry,
                       currentTimer, _projects, dailySummary, probe, pending>>
        /\ lastOp' = "none"
        /\ UNCHANGED <<reportVars, queueVars, durationVars, historyVars>>

\* executeIfAPIAvailable(func) where func issues one remote call of a kind
\* (when `calls` holds), and shows no notice itself.
executeIfAPIAvailable(kind, calls) ==
    IF isApiAvailable(_ApiAvailable)
    THEN /\ calls => InFlight + 1 <= MaxInFlight
         /\ pending' = IF calls THEN [pending EXCEPT ![kind] = @ + 1]
                                ELSE pending
         /\ lastNotice' = "none"
    ELSE /\ pending' = pending
         /\ lastNotice' = noticeAPINotAvailable(_ApiAvailable)

\* startTimer up to its first await, getRecentTimeEntries.
startTimer ==
    /\ executeIfAPIAvailable("recent", TRUE)
    /\ lastPass' = NoPass
    /\ UNCHANGED <<workspaceId, _ApiAvailable, apiStatusStore, statusText,
                   _currentTimerInterval, intervals, _currentTimeEntry,
                   currentTimer, _projects, dailySummary, passes, probe>>
    /\ lastOp' = "startTimer"
    /\ UNCHANGED <<reportVars, queueVars, durationVars, historyVars>>

\* getRecentTimeEntries resolved and the user chose what to start:
\* this._apiManager.startTimer(new_timer) is called.
RecentResolves ==
    /\ pending["recent"] > 0
    /\ pending' = [pending EXCEPT !["recent"] = @ - 1, !["start"] = @ + 1]
    /\ lastNotice' = "none"
    /\ lastPass' = NoPass
    /\ UNCHANGED <<workspaceId, _ApiAvailable, apiStatusStore, statusText,
                   _currentTimerInterval, intervals, _currentTimeEntry,
                   currentTimer, _projects, dailySummary, passes, probe>>
    /\ lastOp' = "none"
    /\ UNCHANGED <<reportVars, queueVars, durationVars, historyVars>>

\* A remote call of a kind rejects (for "recent": or the user's input does)
\* and nothing handles it.
callFails(kind) ==
    /\ pending[kind] > 0
    /\ pending' = [pending EXCEPT ![kind] = @ - 1]
    /\ lastNotice' = "none"
    /\ lastPass' = NoPass
    /\ UNCHANGED <<workspaceId, _ApiAvailable, apiStatusStore, statusText,
                   _currentTimerInterval, intervals, _currentTimeEntry,
                   currentTimer, _projects, dailySummary, passes, probe>>
    /\ lastOp' = "none"
    /\ UNCHANGED <<reportVars, queueVars, durationVars, historyVars>>

CallFails == \E kind \in Kinds : callFails(kind)

\* timeEntries.start or timeEntries.stop resolved: its then-callback calls
\* updateCurrentTimer().
thenUpdateCurrentTimer(kind) ==
    /\ pending[kind] > 0
    /\ isApiAvailable(_ApiAvailable) => Len(passes) < MaxPasses
    /\ pending' = [pending EXCEPT ![kind] = @ - 1]
    /\ passes' = beginPass(_ApiAvailable, _currentTimeEntry, passes)
    /\ lastNotice' = "none"
    /\ lastPass' = NoPass
    /\ UNCHANGED <<workspaceId, _ApiAvailable, apiStatusStore, statusText,
                   _currentTimerInterval, intervals, _currentTimeEntry,
                   currentTimer, _projects, dailySummary, probe>>
    /\ lastOp' = "updateCurrentTimer"
    /\ UNCHANGED <<reportVars, queueVars, durationVars, historyVars>>

StartResolves == thenUpdateCurrentTimer("start")

StopResolves == thenUpdateCurrentTimer("stop")

stopTimer_heldOrNot ==
    /\ executeIfAPIAvailable("stop", TRUE)
    /\ lastPass' = NoPass
    /\ UNCHANGED <<workspaceId, _ApiAvailable, apiStatusStore, statusText,
                   _currentTimerInterval, intervals, _currentTimeEntry,
                   currentTimer, _projects, dailySummary, passes, probe>>
    /\ lastOp' = "stopTimer"
    /\ UNCHANGED <<reportVars, queueVars, durationVars, historyVars>>

\* stopTimer: timeEntries.stop is called when an entry is held.
stopTimer ==
    /\ executeIfAPIAvailable("stop", _currentTimeEntry # Null)
    /\ lastPass' = NoPass
    /\ UNCHANGED <<workspaceId, _ApiAvailable, apiStatusStore, statusText,
                   _currentTimerInterval, intervals, _currentTimeEntry,
                   currentTimer, _projects, dailySummary, passes, probe>>
    /\ lastOp' = "stopTimer"
    /\ UNCHANGED <<reportVars, queueVars, durationVars, historyVars>>

SummaryReport == [summary |-> TRUE]

\* getDailySummary resolved: dailySummary.set(response).
SummaryResolves ==
    /\ pending["summary"] > 0
    /\ pending' = [pending EXCEPT !["summary"] = @ - 1]
    /\ dailySummary' = SummaryReport
    /\ lastNotice' = "none"
    /\ lastPass' = NoPass
    /\ UNCHANGED <<workspaceId, _ApiAvailable, apiStatusStore, statusText,
                   _currentTimerInterval, intervals, _currentTimeEntry,
                   currentTimer, _projects, passes, probe>>
    /\ lastOp' = "none"
    /\ UNCHANGED <<reportVars, queueVars, durationVars, historyVars>>

\* getProjects of the preload resolved with the projects `response`.  In the
\* updater of currentTimer, project.name throws when the entry's project is
\* not in the response, and the store keeps its value.
ProjectsResolves ==
    \E response \in SUBSET ProjectIds :
        /\ pending["projects"] > 0
        /\ pending' = [pending EXCEPT !["projects"] = @ - 1]
        /\ _projects' = response
        /\ currentTimer' =
              IF currentTimer # Null /\ currentTimer.pid # Undefined
                 /\ currentTimer.pid \in response
              THEN [currentTimer EXCEPT
                       !.project = ProjectName(currentTimer.pid),
                       !.project_hex_color = ProjectColor(currentTimer.pid)]
              ELSE currentTimer
        /\ lastNotice' = "none"
        /\ lastPass' = NoPass
        /\ UNCHANGED <<workspaceId, _ApiAvailable, apiStatusStore, statusText,
                       _currentTimerInterval, intervals, _currentTimeEntry,
                       dailySummary, passes, probe>>
        /\ lastOp' = "none"
        /\ UNCHANGED <<reportVars, queueVars, durationVars, historyVars>>

(***************************************************************************)
(* Spec: the service from its construction on.                             *)
(***************************************************************************)
E1 ==
    [id |-> "e1", description |-> "a", pid |-> "p10", start |-> "t1",
     tags |-> Some(<<"x">>), wid |-> 1]
ServiceEntries ==
    {E1,
     [E1 EXCEPT !.description = "b"],
     [E1 EXCEPT !.id = "e2", !.wid = 2],
     [E1 EXCEPT !.id = "e2", !.wid = 2, !.pid = Undefined, !.tags = Absent]}
ServiceResponses == ServiceEntries \cup {Null}

Init ==
    /\ workspaceId = "1"
    /\ Constructed
    /\ NoReportCall
    /\ QueueIdle
    /\ NoDurationCall
    /\ Untracked

Next ==
    \/ SetToken
    \/ ProbeSettles
    \/ Tick
    \/ PassResolves(ServiceResponses)
    \/ PassFails
    \/ startTimer
    \/ RecentResolves
    \/ StartResolves
    \/ stopTimer
    \/ StopResolves
    \/ SummaryResolves
    \/ ProjectsResolves
    \/ CallFails

Spec == Init /\ [][Next]_vars

\* SpecRace: Spec, with the overtaking of passes recorded.
InitRace ==
    /\ workspaceId = "1"
    /\ Constructed
    /\ NoReportCall
    /\ QueueIdle
    /\ NoDurationCall
    /\ trackOvertaking = TRUE

SpecRace == InitRace /\ [][Next]_vars

(***************************************************************************)
(* SpecClassify: one pass of updateCurrentTimer, for every held entry,     *)
(* every response and both configured workspaces.                          *)
(***************************************************************************)
InitClassify ==
    /\ workspaceId \in WorkspaceIds
    /\ _ApiAvailable = "AVAILABLE"
    /\ apiStatusStore = "AVAILABLE"
    /\ statusText = <<"Connecting to Toggl...">>
    /\ _currentTimerInterval = NoHandle
    /\ intervals = {}
    /\ _currentTimeEntry \in Responses
    /\ currentTimer = IF _currentTimeEntry = Null
                      THEN Null
                      ELSE responseToTimeEntry(_currentTimeEntry, {})
    /\ _projects = {}
    /\ dailySummary = Null
    /\ passes = beginPass(_ApiAvailable, _currentTimeEntry, <<>>)
    /\ probe = "connected"
    /\ pending = NoCalls
    /\ lastOp = "none"
    /\ lastNotice = "none"
    /\ lastPass = NoPass
    /\ NoReportCall
    /\ QueueIdle
    /\ NoDurationCall
    /\ Untracked

NextClassify == PassResolves(Responses)

SpecClassify == InitClassify /\ [][NextClassify]_vars

(***************************************************************************)
(* SpecReport: getDetailedReport, for every list the fetch resolves with.  *)
(***************************************************************************)
InitReport ==
    /\ workspaceId = "1"
    /\ Constructed
    /\ rawData \in RawLists
    /\ report = NoReport
    /\ QueueIdle
    /\ NoDurationCall
    /\ Untracked

\* reports.detailsAll resolves with rawData: getDetailedReport from its
\* await to its return.
DetailsAllResolves ==
    /\ report = NoReport
    /\ report' = assemble(rawData)
    /\ UNCHANGED rawData
    /\ UNCHANGED <<serviceVars, queueVars, durationVars, historyVars>>

NextReport == DetailsAllResolves

SpecReport == InitReport /\ [][NextReport]_vars

(***************************************************************************)
(* SpecQueue: the report queries of one TogglAPI, getSummary and           *)
(* getDetailedReport, which hand their remote call to its ApiQueue.        *)
(***************************************************************************)
QueryKinds == {"summary", "detailed"}
Outcomes == {"resolved", "rejected"}

\* The report queries made so far.
Submitted == Len(queueStarted) + Len(queueWaiting)

\* What reports.detailsAll resolves with in SpecQueue.
SampleLists ==
    {<<>>,
     <<[id |-> 1, dur |-> 10]>>,
     <<[id |-> 1, dur |-> 10], [id |-> 1, dur |-> 10]>>}

dequeue_ignoresBusy(waiting, busy) ==
    IF waiting = <<>>
    THEN [waiting |-> waiting, busy |-> busy, begun |-> <<>>]
    ELSE [waiting |-> Tail(waiting), busy |-> TRUE,
          begun |-> <<Head(waiting)>>]

\* ApiQueue: when no operation of the queue runs and one waits, the oldest
\* waiting operation is taken off the list and called.
dequeue(waiting, busy) ==
    IF busy \/ waiting = <<>>
    THEN [waiting |-> waiting, busy |-> busy, begun |-> <<>>]
    ELSE [waiting |-> Tail(waiting), busy |-> TRUE,
          begun |-> <<Head(waiting)>>]

\* The queue after a dequeue that left it as d.
dequeued(d) ==
    /\ queueWaiting' = d.waiting
    /\ queueBusy' = d.busy
    /\ queueStarted' =
          queueStarted \o [i \in 1..Len(d.begun) |-> d.begun[i].n]

\* this._queue.queue(() => this._api.reports...): the operation joins the
\* end of the waiting list, and the queue looks for work.
queue(kind) ==
    /\ Submitted < MaxSubmitted
    /\ LET op == [n |-> Submitted + 1, kind |-> kind]
           d == dequeue(Append(queueWaiting, op), queueBusy)
       IN  /\ dequeued(d)
           /\ reportFetches' =
                 reportFetches \cup {d.begun[i] : i \in 1..Len(d.begun)}
    /\ UNCHANGED queueSettled

\* getSummary up to its await.
getSummary ==
    /\ queue("summary")
    /\ UNCHANGED <<serviceVars, reportVars, durationVars, historyVars>>

\* getDetailedReport up to its await.
getDetailedReport ==
    /\ queue("detailed")
    /\ UNCHANGED <<serviceVars, reportVars, durationVars, historyVars>>

\* The remote call of a running operation settles: the queue passes the
\* outcome on to the caller and looks for work.
settles(op, outcome) ==
    /\ queueSettled' = Append(queueSettled, [n |-> op.n, outcome |-> outcome])
    /\ LET d == dequeue(queueWaiting, FALSE)
       IN  /\ dequeued(d)
           /\ reportFetches' =
                 (reportFetches \ {op})
                 \cup {d.begun[i] : i \in 1..Len(d.begun)}

\* A report query resolves: getSummary returns the response; getDetailedReport
\* runs from its await to its return.
ReportResolves ==
    \E op \in reportFetches :
        /\ settles(op, "resolved")
        /\ IF op.kind = "detailed"
           THEN \E raw \in SampleLists :
                    /\ rawData' = raw
                    /\ report' = assemble(raw)
           ELSE UNCHANGED reportVars
        /\ UNCHANGED <<serviceVars, durationVars, historyVars>>

\* A report query rejects: the caller's await throws.
ReportRejects ==
    \E op \in reportFetches :
        /\ settles(op, "rejected")
        /\ UNCHANGED <<serviceVars, reportVars, durationVars, historyVars>>

\* The service after setToken('token'), once the calls it made have settled.
TokenSet ==
    /\ _ApiAvailable = "AVAILABLE"
    /\ apiStatusStore = "AVAILABLE"
    /\ statusText = timerText(Null)
    /\ _currentTimerInterval = 1
    /\ intervals = {1}
    /\ _currentTimeEntry = Null
    /\ currentTimer = Null
    /\ _projects = {}
    /\ dailySummary = SummaryReport
    /\ passes = <<>>
    /\ probe = "connected"
    /\ pending = NoCalls
    /\ lastOp = "none"
    /\ lastNotice = "none"
    /\ lastPass = NoPass

InitQueue ==
    /\ workspaceId = "1"
    /\ TokenSet
    /\ NoReportCall
    /\ QueueIdle
    /\ NoDurationCall
    /\ Untracked

NextQueue ==
    \/ getSummary
    \/ getDetailedReport
    \/ ReportResolves
    \/ ReportRejects

SpecQueue == InitQueue /\ [][NextQueue]_vars

(***************************************************************************)
(* SpecDuration: getTimerDuration, for every entry and clock of a bounded  *)
(* set.                                                                    *)
(***************************************************************************)
\* duration of a time entry: minus the epoch second of its start while it
\* runs, its length in seconds once it is stopped.
Durations == {-1700000040, -1700000000, 0, 59, 3600}
\* stop of a time entry: absent while it runs.
Stops == {Absent, Some("2023-11-14T23:13:20+00:00")}
DurationEntries == [duration : Durations, stop : Stops]
Clocks == [sec : {1700000000, 1700000100, 1700003600}, ms : {0, 499, 500, 999}]

\* if (timeEntry.stop): absent, null and '' are falsy.
Truthy(field) == field # Absent /\ field[1] # ""

\* Math.round(new Date().getTime() / 1000)
epoch_time(clock) == clock.sec + (IF clock.ms >= 500 THEN 1 ELSE 0)

getTimerDuration_literal(entry, clock) == entry.duration

getTimerDuration(entry, clock) ==
    IF Truthy(entry.stop)
    THEN entry.duration
    ELSE epoch_time(clock) + entry.duration

InitDuration ==
    /\ workspaceId = "1"
    /\ TokenSet
    /\ NoReportCall
    /\ QueueIdle
    /\ now \in Clocks
    /\ timeEntry \in DurationEntries
    /\ timerDuration = NoDuration
    /\ Untracked

GetTimerDuration ==
    /\ timerDuration = NoDuration
    /\ timerDuration' = [seconds |-> getTimerDuration(timeEntry, now)]
    /\ UNCHANGED <<now, timeEntry>>
    /\ UNCHANGED <<serviceVars, reportVars, queueVars, historyVars>>

NextDuration == GetTimerDuration

SpecDuration == InitDuration /\ [][NextDuration]_vars

(***************************************************************************)
(* The claims.                                                             *)
(***************************************************************************)
TagSet(tags) == {OrEmpty(tags)[i] : i \in 1..Len(OrEmpty(tags))}
NoRepeats(tags) == Cardinality(TagSet(tags)) = Len(OrEmpty(tags))
PassOfBoth == lastPass # NoPass /\ lastPass.prev # Null /\ lastPass.curr # Null
PassOfSameId == PassOfBoth /\ lastPass.prev.id = lastPass.curr.id
OtherFieldsDiffer ==
    \/ lastPass.prev.description # lastPass.curr.description
    \/ lastPass.prev.pid # lastPass.curr.pid
    \/ lastPass.prev.start # lastPass.curr.start
Mismatch(entry) ==
    (entry.wid = 1 /\ workspaceId # "1") \/ (entry.wid = 2 /\ workspaceId # "2")

\* C1: a pass classifies (held, fetched after the workspace filter): both
\* null is unchanged and logs no case; null then an entry is Case 1
\* (Started); an entry then null is Case 4 (Stopped); two entries of
\* different ids are Case 2 (Switched) whatever their other fields; each of
\* the three sets changed.
C1_Classification ==
    lastPass # NoPass =>
        /\ (lastPass.prev = Null /\ lastPass.curr = Null)
              => (~lastPass.changed /\ lastPass.case = "none")
        /\ (lastPass.prev = Null /\ lastPass.curr # Null)
              => (lastPass.changed /\ lastPass.case = "Case 1")
        /\ (lastPass.prev # Null /\ lastPass.curr = Null)
              => (lastPass.changed /\ lastPass.case = "Case 4")
        /\ (PassOfBoth /\ lastPass.prev.id # lastPass.curr.id)
              => (lastPass.changed /\ lastPass.case = "Case 2")

\* C1 witness: a pass over two entries that differ in their id alone.
C1_Witness ==
    /\ PassOfBoth
    /\ lastPass.prev.id # lastPass.curr.id
    /\ [lastPass.prev EXCEPT !.id = lastPass.curr.id] = lastPass.curr
    /\ lastPass.case = "Case 2"

\* C2 as claimed: for two entries of the same id the pass is Case 3
\* (Updated, changed) exactly when description, pid, start or the set of
\* tags differs, and unchanged otherwise.
C2_Original ==
    PassOfSameId =>
        /\ lastPass.changed
              <=> (OtherFieldsDiffer
                   \/ TagSet(lastPass.prev.tags) # TagSet(lastPass.curr.tags))
        /\ lastPass.case = IF lastPass.changed THEN "Case 3" ELSE "none"

\* C2 amended: for two entries of the same id whose tag lists hold no tag
\* twice, the pass is Case 3 (Updated, changed) exactly when description,
\* pid, start or the set of tags differs, and unchanged otherwise; with a
\* repeated tag the tags count as differing exactly when the lists differ in
\* length or a tag of the held list is not in the fetched one.
C2_UpdatedIffFieldDiffers ==
    PassOfSameId =>
        LET old == lastPass.prev.tags
            new == lastPass.curr.tags
        IN  /\ (NoRepeats(old) /\ NoRepeats(new)) =>
                  (lastPass.changed
                      <=> (OtherFieldsDiffer \/ TagSet(old) # TagSet(new)))
            /\ lastPass.changed
                  <=> \/ OtherFieldsDiffer
                      \/ Len(OrEmpty(old)) # Len(OrEmpty(new))
                      \/ ~(TagSet(old) \subseteq TagSet(new))
            /\ lastPass.case = IF lastPass.changed THEN "Case 3" ELSE "none"

\* C2 witness: a pass over two entries that differ in their start alone.
C2_Witness ==
    /\ PassOfSameId
    /\ lastPass.prev.start # lastPass.curr.start
    /\ [lastPass.prev EXCEPT !.start = lastPass.curr.start] = lastPass.curr
    /\ lastPass.case = "Case 3"

\* C3 as claimed: the tag comparison reports a change exactly when the two
\* lists differ as sets (seen in a pass over two entries that agree in id,
\* description, pid and start, where `changed` is what isTagsChanged says).
C3_Original ==
    (PassOfSameId /\ ~OtherFieldsDiffer) =>
        (lastPass.changed
            <=> TagSet(lastPass.prev.tags) # TagSet(lastPass.curr.tags))

\* C3 amended: the tag comparison reports a change exactly when the two
\* lists (absent read as empty) differ in length or a tag of the old list is
\* not in the new one; for lists that hold no tag twice that is: exactly when
\* they differ as sets, whatever their order.
C3_TagsChangedIffLengthOrMissing ==
    (PassOfSameId /\ ~OtherFieldsDiffer) =>
        LET old == lastPass.prev.tags
            new == lastPass.curr.tags
        IN  /\ lastPass.changed
                  <=> \/ Len(OrEmpty(old)) # Len(OrEmpty(new))
                      \/ ~(TagSet(old) \subseteq TagSet(new))
            /\ (NoRepeats(old) /\ NoRepeats(new)) =>
                  (lastPass.changed <=> TagSet(old) # TagSet(new))

\* C3 witness: the same two tags in another order, reported unchanged.
C3_Witness ==
    /\ PassOfSameId
    /\ ~OtherFieldsDiffer
    /\ Len(OrEmpty(lastPass.prev.tags)) = 2
    /\ NoRepeats(lastPass.prev.tags)
    /\ lastPass.prev.tags # lastPass.curr.tags
    /\ TagSet(lastPass.prev.tags) = TagSet(lastPass.curr.tags)
    /\ ~lastPass.changed

FirstIdx == {i \in 1..Len(rawData) :
                \A j \in 1..(i - 1) : rawData[j].id # rawData[i].id}
NthFirst(k) ==
    CHOOSE i \in FirstIdx : Cardinality({j \in FirstIdx : j < i}) = k - 1

\* C6: the data of the returned report holds no two records of one id, and
\* is the first record of each id of the fetched list, in the order of the
\* fetched list.
C6_DedupFirstOccurrences ==
    report # NoReport =>
        /\ \A i, j \in 1..Len(report.data) :
              i # j => report.data[i].id # report.data[j].id
        /\ Len(report.data) = Cardinality(FirstIdx)
        /\ \A k \in 1..Len(report.data) : report.data[k] = rawData[NthFirst(k)]

\* C6 witness: the pages [1,2],[2,3],[4], the two records of id 2 differing.
C6_Witness ==
    /\ report # NoReport
    /\ Len(rawData) = 5
    /\ [i \in 1..5 |-> rawData[i].id] = <<1, 2, 2, 3, 4>>
    /\ rawData[2].dur # rawData[3].dur
    /\ [i \in 1..Len(report.data) |-> report.data[i].id] = <<1, 2, 3, 4>>

\* C7: the totals of the returned report are those of its deduplicated
\* data: total_count is the number of records of data and total_grand the
\* sum of their durations.
C7_TotalsOfDedupData ==
    report # NoReport =>
        /\ report.total_count = Len(report.data)
        /\ report.total_grand = sumDur(report.data)

\* C8: when setToken was called with a credential and the probe of that
\* call failed, the status is UNREACHABLE, the notice for it was shown and
\* no poll interval runs.
C8_ProbeFailureIsUnreachable ==
    (probe = "rejected" /\ _ApiAvailable # "NO_TOKEN") =>
        /\ _ApiAvailable = "UNREACHABLE"
        /\ apiStatusStore = "UNREACHABLE"
        /\ intervals = {}

C10_AtMostOneInterval ==
    /\ Cardinality(intervals) <= 1
    /\ intervals \subseteq {_currentTimerInterval}
    /\ lastOp \in {"setToken(null)", "setToken('')"} =>
          (intervals = {} /\ _ApiAvailable = "NO_TOKEN"
           /\ apiStatusStore = "NO_TOKEN")
    /\ lastOp = "setToken('token')" => Cardinality(intervals) = 1

\* C10 witness: setToken was called with a credential after an earlier call
\* with one (whose daily summary has arrived), and one interval runs.
C10_Witness ==
    /\ lastOp = "setToken('token')"
    /\ dailySummary = SummaryReport
    /\ Cardinality(intervals) = 1

\* The report fetches in flight: getDailySummary, getRecentTimeEntries and
\* the report queries.
ReportFetchesInFlight ==
    pending["summary"] + pending["recent"] + Cardinality(reportFetches)

\* C11: no two report fetches of the client (summary, detailed, daily
\* summary, recent entries) are in flight at the same time.
C11_ReportFetchesSerialized == ReportFetchesInFlight <= 1

SettledNumbers == {queueSettled[k].n : k \in 1..Len(queueSettled)}

\* C12: the report queries handed to the queue run one at a time and in the
\* order they were submitted: at most one is in flight, the k-th begun is
\* the k-th submitted, one is in flight only when every query submitted
\* before it has settled (resolved or rejected), they settle in that order
\* too, and the queue never rests while a query waits, whatever the
\* outcomes of the queries before it.
C12_QueueOneAtATimeFifo ==
    /\ Cardinality(reportFetches) <= 1
    /\ queueStarted = [i \in 1..Len(queueStarted) |-> i]
    /\ \A i \in 1..Len(queueWaiting) :
          queueWaiting[i].n = Len(queueStarted) + i
    /\ \A op \in reportFetches : \A j \in 1..(op.n - 1) : j \in SettledNumbers
    /\ \A k \in 1..Len(queueSettled) : queueSettled[k].n = k
    /\ queueWaiting # <<>> => reportFetches # {}
    /\ queueBusy <=> reportFetches # {}

\* C12 witness: the first query was rejected, the second ran after it and
\* resolved, the third is in flight and the fourth waits.
C12_Witness ==
    /\ Len(queueSettled) = 2
    /\ queueSettled[1] = [n |-> 1, outcome |-> "rejected"]
    /\ queueSettled[2] = [n |-> 2, outcome |-> "resolved"]
    /\ \E op \in reportFetches : op.n = 3
    /\ Len(queueWaiting) = 1
    /\ queueWaiting[1].n = 4

\* The clock in epoch seconds, to the nearest second.
EpochSeconds == IF now.ms < 500 THEN now.sec ELSE now.sec + 1

\* C13: getTimerDuration returns, for a running entry (no stop), the current
\* epoch seconds plus the stored duration (-1700000000 at epoch 1700000100
\* gives 100), and for a stopped entry the stored duration as it is (3600
\* gives 3600).
C13_TimerDuration ==
    timerDuration # NoDuration =>
        /\ timeEntry.stop = Absent
              => timerDuration.seconds = EpochSeconds + timeEntry.duration
        /\ timeEntry.stop # Absent
              => timerDuration.seconds = timeEntry.duration
        /\ (timeEntry = [duration |-> -1700000000, stop |-> Absent]
            /\ now = [sec |-> 1700000100, ms |-> 0])
              => timerDuration.seconds = 100
        /\ (timeEntry.duration = 3600 /\ timeEntry.stop # Absent)
              => timerDuration.seconds = 3600

\* C13 witness: the running entry of duration -1700000000 at epoch
\* 1700000100 has run 100 seconds.
C13_Witness ==
    /\ timeEntry = [duration |-> -1700000000, stop |-> Absent]
    /\ now = [sec |-> 1700000100, ms |-> 0]
    /\ timerDuration = [seconds |-> 100]

\* C14: once setToken has stopped the poller (no interval runs), a pass that
\* was in flight may run to its end, but its result is discarded: the held
\* entry, the published currentTimer and the status text stay as they are
\* and no daily summary is fetched.
C14_ResultsDiscardedAfterStop ==
    [][(intervals = {} /\ lastPass' # NoPass)
       => /\ _currentTimeEntry' = _currentTimeEntry
          /\ currentTimer' = currentTimer
          /\ statusText' = statusText
          /\ pending'["summary"] = pending["summary"]]_vars

\* C15: a pass that a later-started pass has overtaken (the later one ran to
\* its end first) does not write its result to the held entry.
C15_StaleResultNotWritten ==
    [][(lastPass' # NoPass /\ lastPass'.overtaken)
       => _currentTimeEntry' = _currentTimeEntry]_vars

\* C16: the previous value a pass classifies against is the held entry as it
\* is when the fetch of the pass has resolved and the classification runs.
C16_PrevIsLastSettled ==
    [][lastPass' # NoPass => lastPass'.prev = _currentTimeEntry]_vars

\* The step is a pass whose fetch failed.
PassFailed == Len(passes') < Len(passes) /\ lastPass' = NoPass

\* C17: a pass whose fetch fails leaves the held entry, the published
\* currentTimer, the status and the status text as they are, shows no
\* notice and issues no call; the interval stays scheduled and the other
\* passes in flight are untouched, so later ticks are reconciled as ever.
C17_FailedTickSkipped ==
    [][PassFailed
       => /\ UNCHANGED <<_currentTimeEntry, currentTimer, _ApiAvailable,
                         apiStatusStore, statusText, dailySummary, pending>>
          /\ lastNotice' = "none"
          /\ UNCHANGED <<intervals, _currentTimerInterval>>
          /\ \E i \in 1..Len(passes) : passes' = RemoveAt(passes, i)]_vars

\* C17 witness: every pass so far has failed (the status bar still shows the
\* constructor's text and no pass is in flight), and the interval runs.
C17_Witness ==
    /\ _ApiAvailable = "AVAILABLE"
    /\ statusText = <<"Connecting to Toggl...">>
    /\ passes = <<>>
    /\ Cardinality(intervals) = 1
    /\ _currentTimeEntry = Null
    /\ currentTimer = Null
    /\ lastNotice = "none"

\* The entry published for the response curr: null for null, else its fields.
Publishes(published, curr) ==
    IF curr = Null
    THEN published = Null
    ELSE /\ published # Null
         /\ published.id = curr.id
         /\ published.description = curr.description
         /\ published.pid = curr.pid
         /\ published.start = curr.start
         /\ published.tags = curr.tags

\* C18: a pass that runs to its end publishes to currentTimer and fetches
\* the daily summary exactly when its classification is a change (one of
\* Case 1 to Case 4); an unchanged pass leaves currentTimer and the calls in
\* flight as they are; no pass writes the daily summary itself; every pass
\* refreshes the status text.
C18_PublishIffChanged ==
    [][lastPass' # NoPass
       => /\ lastPass'.changed <=> lastPass'.case # "none"
          /\ lastPass'.changed
                => /\ Publishes(currentTimer', lastPass'.curr)
                   /\ pending' = [pending EXCEPT !["summary"] = @ + 1]
          /\ ~lastPass'.changed
                => /\ currentTimer' = currentTimer
                   /\ pending' = pending
          /\ dailySummary' = dailySummary
          /\ statusText' = timerText(lastPass'.curr)]_vars

\* C18 witness: an unchanged pass over a running entry: the entry stays
\* published, no daily summary is in flight and the status text is its.
C18_Witness ==
    /\ lastPass # NoPass
    /\ ~lastPass.changed
    /\ lastPass.curr # Null
    /\ currentTimer # Null
    /\ currentTimer.id = lastPass.curr.id
    /\ pending["summary"] = 0
    /\ statusText = timerText(lastPass.curr)

\* C19: only a pass writes the held entry: every step that changes it is a
\* pass running to its end (so setToken, startTimer, stopTimer, the preload
\* and the settling of their calls leave it); and stopTimer with no entry
\* held issues no remote call.
C19_SingleWriter ==
    [][/\ _currentTimeEntry' # _currentTimeEntry
             => (lastPass' # NoPass /\ lastOp' = "none")
       /\ (lastOp' = "stopTimer" /\ _currentTimeEntry = Null)
             => (pending' = pending /\ passes' = passes)]_vars

\* C19 witness: stopTimer was called while the API is available and no
\* entry is held: no stop call is in flight.
C19_Witness ==
    /\ lastOp = "stopTimer"
    /\ _ApiAvailable = "AVAILABLE"
    /\ _currentTimeEntry = Null
    /\ lastNotice = "none"
    /\ pending["stop"] = 0
    /\ dailySummary = SummaryReport

\* C20: whenever no pass is in flight, currentTimer is null exactly when the
\* held entry is, and when neither is they have the same id.
C20_PublishedMatchesHeld ==
    passes = <<>> =>
        /\ currentTimer = Null <=> _currentTimeEntry = Null
        /\ (currentTimer # Null /\ _currentTimeEntry # Null)
              => currentTimer.id = _currentTimeEntry.id

====
